---- MODULE Spec2Model ----
(***************************************************************************)
(* Model of plumbus (jargv/midus): the dynamic adaptor that turns a typed  *)
(* function into an http handler (infoToDynamicAdaptor), the error to      *)
(* status translation (ResponseError), the adaptor cache (adaptors,        *)
(* RegisterAdaptor, HandlerFunc, makeDynamicAdaptor) and route             *)
(* registration (ServeMux.Handle).                                         *)
(*                                                                         *)
(* Six specifications share the variables:                                 *)
(*   Spec        one request served by a dynamic adaptor, step by step;    *)
(*   SpecReg     a sequence of RegisterAdaptor / HandlerFunc / Handle      *)
(*               calls;                                                    *)
(*   SpecConc    goroutines calling HandlerFunc / RegisterAdaptor;         *)
(*   SpecRoute   the path router (Paths) and the method wrapper (ByMethod);*)
(*   SpecIso     requests served at the same time by one dynamic adaptor;  *)
(*   SpecCounter goroutines calling Incr / Count on the example Counter.   *)
(***************************************************************************)
EXTENDS Integers, Sequences, FiniteSets, TLC

\* ------------------------------------------------------------------ bounds
\* the largest number of handler parameters (len(info.Inputs))
MaxInputs == 2
\* the largest number of handler return values, the error slot not counted
MaxResults == 2
\* the largest number of registration calls in one behaviour of SpecReg
MaxOps == 3
\* the number of goroutines calling into the adaptor cache in SpecConc
MaxThreads == 2
\* the largest number of entries in the route table in SpecRoute
MaxRoutes == 2
\* the Counter calls (Incr or Count) started
MaxCalls == 3

\* ------------------------------------------------- constants of the program
StatusOK == 200
StatusBadRequest == 400
StatusInternalServerError == 500
StatusNotFound == 404
StatusMethodNotAllowed == 405

\* ---------------------------------------------------------------- values
\* the strings a query parameter or a body field may hold; Zero is Go's zero
\* value of a string-kinded parameter type
Values == {"awesome", "nachos"}
Zero == ""

\* error values.  kind "nil" is the nil error, "http" an error implementing
\* HTTPError (ResponseCode() = code), "plain" an error that does not.
NoError == [kind |-> "nil", code |-> 0, msg |-> ""]
Errorf(code, msg) == [kind |-> "http", code |-> code, msg |-> msg]
PlainError(msg) == [kind |-> "plain", code |-> 0, msg |-> msg]

\* the errors user code (FromRequest, ToResponse, the handler) may return
UserErrors ==
    { Errorf(400, "result"), Errorf(404, "this is an error"), PlainError("internal detail") }

\* the error of json's Decoder for a malformed body: it carries no status
DecodeError == PlainError("invalid character")

\* ------------------------------------------------------------- variables
VARIABLES
    \* --- one request served by a dynamic adaptor
    info,        \* the plan: generate.Info as infoToDynamicAdaptor reads it
    req,         \* the request: its body and, per input, its query data
    pc,          \* the position of the adaptor's closure
    idx,         \* the loop index (inputs while binding, results afterwards)
    args,        \* the argument slots populated so far
    calls,       \* how many times handler.Call ran for this request
    results,     \* what the handler returned
    res,         \* the http.ResponseWriter
    log,         \* the server-side log
    hist,        \* history of the request: what failed, what was processed
    \* --- the adaptor cache and route registration
    adaptors,    \* the package-level map reflect.Type -> adaptorFunc
    collected,   \* per signature, how many times generate.CollectInfo ran
    routes,      \* the routes the ServeMux holds
    last,        \* the last registration call and how it ended
    ops,         \* the number of registration calls so far
    \* --- goroutines calling into the adaptor cache
    thr,         \* per goroutine: the call it runs and its position in it
    \* --- the path router and the method wrapper
    rt,          \* the route table, the request being routed and its outcome
    \* --- requests served at the same time by one dynamic adaptor
    iso,         \* per request: its data, its position, its slots, its outcome
    \* --- the example Counter
    ctr          \* HitCount, the lock, and the goroutines calling Incr / Count

serveVars == <<info, req, pc, idx, args, calls, results, res, log, hist>>
regVars == <<adaptors, collected, routes, last, ops>>
auxVars == <<rt, iso, ctr>>
vars == <<info, req, pc, idx, args, calls, results, res, log, hist,
          adaptors, collected, routes, last, ops, thr, rt, iso, ctr>>

\* ------------------------------------------------------------------ plans
\* generate.Info, the fields infoToDynamicAdaptor reads.  Indices are Go's
\* (from 0); -1 is "no such slot".  NumInputs is len(info.Inputs), NumResults
\* the number of return values once the error slot is cut off.
Plans ==
    UNION { UNION {
        [ NumInputs : {n}, RequestBodyIndex : -1 .. (n - 1),
          IsPointer : [0 .. (n - 1) -> BOOLEAN], LastIsError : BOOLEAN,
          NumResults : {m}, ResponseBodyIndex : -1 .. (m - 1) ]
        : m \in 0 .. MaxResults } : n \in 0 .. MaxInputs }

\* what a request holds for one extracting parameter: a value, nothing at all
\* ("absent": pure absence), or data the parameter's type cannot parse
QueryData == Values \cup {"absent", "malformed"}

\* the requests that can reach the adaptor built from plan p
Requests(p) ==
    [ body : IF p.RequestBodyIndex = -1 THEN {"absent"} ELSE Values \cup {"malformed"},
      query : [0 .. (p.NumInputs - 1) -> QueryData] ]

\* --------------------------------------------------- the response writer
\* http.ResponseWriter: the first WriteHeader decides the status, a later one
\* is ignored; a Write before any WriteHeader sends StatusOK.  The body is the
\* sequence of lines written, a line the sequence of its pieces.
NewResponse == [wroteHeader |-> FALSE, status |-> 0, body |-> <<>>]

WriteHeader(r, code) ==
    IF r.wroteHeader THEN r ELSE [r EXCEPT !.wroteHeader = TRUE, !.status = code]

Write(r, line) ==
    [WriteHeader(r, StatusOK) EXCEPT !.body = Append(@, line)]

\* http.Error(res, msg, code): the status, then the message on a line
HttpError(r, line, code) == Write(WriteHeader(r, code), line)

\* the server ends the response when the handler returns: StatusOK if the
\* handler wrote nothing
Finish(r) == WriteHeader(r, StatusOK)

\* printRequestError: the error's text goes to the log
printRequestError(lg, err) == lg \cup {err.msg}

\* a ResponseError that answers every error with StatusBadRequest
ResponseErrorAlways400(r, lg, err) ==
    [res |-> HttpError(r, <<err.msg>>, StatusBadRequest), log |-> lg]

\* a ResponseError that never looks for a status in the error
ResponseErrorGeneric(r, lg, err) ==
    [res |-> HttpError(r, <<err.msg>>, StatusInternalServerError),
     log |-> printRequestError(lg, err)]

\* a ResponseError that sends the text of an error without a status
ResponseErrorEcho(r, lg, err) ==
    IF err.kind = "http"
    THEN [res |-> HttpError(r, <<err.msg>>, err.code), log |-> lg]
    ELSE [res |-> HttpError(r, <<err.msg>>, StatusInternalServerError),
          log |-> printRequestError(lg, err)]

\* ResponseError(res, req, err): the response and the log after it
ResponseError(r, lg, err) ==
    IF err.kind = "http"
    THEN [res |-> HttpError(r, <<err.msg>>, err.code), log |-> lg]
    ELSE [res |-> HttpError(r, <<"">>, StatusInternalServerError),
          log |-> printRequestError(lg, err)]

\* ------------------------------------------- what the adaptor calls out to
\* dec.Decode(arg.Interface()) on the request body
Decode(body) ==
    IF body \in Values THEN [err |-> NoError, val |-> body]
    ELSE [err |-> DecodeError, val |-> Zero]

\* enc.Encode(v): the encoded value, on a line of its own
JsonEncode(v) == <<"json", v>>

\* dec.Decode(&result) at the client: the value of an encoded line
JsonDecode(line) == line[2]

\* FromRequest(req) of an extracting parameter: the outcomes an
\* implementation may produce for the data the request holds.  A value is
\* extracted; malformed data is an error; absence is an error with some
\* implementations and a nil error leaving the zero value with others
\* (Param.FromRequest reads Query().Get and returns nil).
FromRequest(data) ==
    IF data \in Values THEN {[err |-> NoError, val |-> data]}
    ELSE IF data = "malformed" THEN {[err |-> e, val |-> Zero] : e \in UserErrors}
    ELSE {[err |-> NoError, val |-> Zero]} \cup {[err |-> e, val |-> Zero] : e \in UserErrors}

\* the statuses a Responsive result may send itself
ResponsiveStatuses == {201}

\* ToResponse(res) of a Responsive result: it may have written to the
\* response (status and one line) or not, and may return an error or nil
ToResponse(r) ==
    { [res |-> w, err |-> e] :
        w \in {r} \cup { Write(WriteHeader(r, s), <<"responsive">>) : s \in ResponsiveStatuses },
        e \in {NoError} \cup UserErrors }

\* what handler.Call(args) may return under plan p
HandlerResults(p) ==
    [ err : IF p.LastIsError THEN {NoError} \cup UserErrors ELSE {NoError},
      body : IF p.ResponseBodyIndex = -1 THEN {Zero} ELSE Values ]

\* ------------------------------------------------------------ the request
NoHist ==
    [ failAt |-> -1, failKind |-> "none", failErr |-> NoError,
      respErr |-> NoError, started |-> FALSE,
      toResponse |-> <<>>, encoded |-> 0, encodeFailed |-> FALSE,
      passed |-> << >> ]

\* the position after input i has been dealt with
NextBind(i) == IF i < info.NumInputs THEN "bind" ELSE "call"

\* a slot that is handed over as a fresh zero value, not as what was bound
PopulateFresh(v) ==
    /\ args' = [j \in 0 .. idx |-> IF j = idx THEN [nil |-> FALSE, val |-> Zero] ELSE args[j]]
    /\ idx' = idx + 1
    /\ pc' = NextBind(idx + 1)
    /\ UNCHANGED <<res, log, hist>>

\* args[i] = arg.Elem(), and on to the next input
Populate(v) ==
    /\ args' = [j \in 0 .. idx |-> IF j = idx THEN [nil |-> FALSE, val |-> v] ELSE args[j]]
    /\ idx' = idx + 1
    /\ pc' = NextBind(idx + 1)
    /\ UNCHANGED <<res, log, hist>>

\* ResponseError(res, req, err); return
RespondError(err, h) ==
    LET out == ResponseError(res, log, err) IN
    /\ res' = Finish(out.res)
    /\ log' = out.log
    /\ hist' = [h EXCEPT !.respErr = err, !.started = res.wroteHeader]
    /\ pc' = "done"

\* lines 549-556: the input that is the request body
BindBody ==
    /\ pc = "bind" /\ idx < info.NumInputs
    /\ idx = info.RequestBodyIndex
    /\ LET out == Decode(req.body) IN
       IF out.err # NoError
       THEN /\ res' = Finish(HttpError(res, <<"error decoding json: ", out.err.msg>>,
                                       StatusBadRequest))
            /\ pc' = "done"
            /\ hist' = [hist EXCEPT !.failAt = idx, !.failKind = "decode",
                                    !.failErr = out.err]
            /\ UNCHANGED <<args, idx, log>>
       ELSE Populate(out.val)
    /\ UNCHANGED <<info, req, calls, results, regVars, thr, auxVars>>

\* a pointer input whose extraction error does not end the request
BindPointerNoReturn ==
    /\ pc = "bind" /\ idx < info.NumInputs
    /\ idx # info.RequestBodyIndex /\ info.IsPointer[idx]
    /\ \E out \in FromRequest(req.query[idx]) :
         /\ args' = [j \in 0 .. idx |->
                        IF j = idx THEN [nil |-> FALSE, val |-> out.val] ELSE args[j]]
         /\ idx' = idx + 1
         /\ pc' = NextBind(idx + 1)
         /\ IF out.err # NoError
            THEN LET o == ResponseError(res, log, out.err) IN
                 /\ res' = o.res
                 /\ log' = o.log
                 /\ hist' = [hist EXCEPT !.failAt = idx, !.failKind = "extract",
                                         !.failErr = out.err, !.respErr = out.err,
                                         !.started = res.wroteHeader]
            ELSE UNCHANGED <<res, log, hist>>
    /\ UNCHANGED <<info, req, calls, results, regVars, thr, auxVars>>

\* lines 557-563: a pointer-typed input.  The pointee is allocated
\* (reflect.New(typ.Elem())) before FromRequest runs, so the slot is never nil.
BindPointer ==
    /\ pc = "bind" /\ idx < info.NumInputs
    /\ idx # info.RequestBodyIndex /\ info.IsPointer[idx]
    /\ \E out \in FromRequest(req.query[idx]) :
         IF out.err # NoError
         THEN /\ RespondError(out.err, [hist EXCEPT !.failAt = idx, !.failKind = "extract",
                                                    !.failErr = out.err])
              /\ UNCHANGED <<args, idx>>
         ELSE Populate(out.val)
    /\ UNCHANGED <<info, req, calls, results, regVars, thr, auxVars>>

\* lines 564-570: a value-typed input
BindValue ==
    /\ pc = "bind" /\ idx < info.NumInputs
    /\ idx # info.RequestBodyIndex /\ ~info.IsPointer[idx]
    /\ \E out \in FromRequest(req.query[idx]) :
         IF out.err # NoError
         THEN /\ RespondError(out.err, [hist EXCEPT !.failAt = idx, !.failKind = "extract",
                                                    !.failErr = out.err])
              /\ UNCHANGED <<args, idx>>
         ELSE Populate(out.val)
    /\ UNCHANGED <<info, req, calls, results, regVars, thr, auxVars>>

\* line 573: results := handler.Call(args)
Call ==
    /\ pc = "call"
    /\ calls' = calls + 1
    /\ \E r \in HandlerResults(info) : results' = r
    /\ pc' = "errslot"
    /\ hist' = [hist EXCEPT !.passed = args]
    /\ UNCHANGED <<info, req, idx, args, res, log, regVars, thr, auxVars>>

\* an error slot that is looked at but does not end the request
CheckErrorSlotNoReturn ==
    /\ pc = "errslot"
    /\ IF info.LastIsError /\ results.err # NoError
       THEN LET o == ResponseError(res, log, results.err) IN
            /\ res' = o.res
            /\ log' = o.log
            /\ hist' = [hist EXCEPT !.respErr = results.err, !.started = res.wroteHeader]
       ELSE UNCHANGED <<res, log, hist>>
    /\ pc' = "outputs"
    /\ idx' = 0
    /\ UNCHANGED <<info, req, args, calls, results, regVars, thr, auxVars>>

\* lines 575-583: the error slot, looked at before any other result
CheckErrorSlot ==
    /\ pc = "errslot"
    /\ IF info.LastIsError /\ results.err # NoError
       THEN /\ RespondError(results.err, hist)
            /\ UNCHANGED idx
       ELSE /\ pc' = "outputs"
            /\ idx' = 0
            /\ UNCHANGED <<res, log, hist>>
    /\ UNCHANGED <<info, req, args, calls, results, regVars, thr, auxVars>>

\* a loop over the results that goes on after a ToResponse error
OutputNoReturn ==
    /\ pc = "outputs" /\ idx < info.NumResults
    /\ IF idx = info.ResponseBodyIndex
       THEN /\ idx' = idx + 1
            /\ UNCHANGED <<pc, res, log, hist>>
       ELSE \E out \in ToResponse(res) :
              LET h == [hist EXCEPT !.toResponse = Append(@, idx)] IN
              /\ idx' = idx + 1
              /\ UNCHANGED pc
              /\ IF out.err # NoError
                 THEN LET o == ResponseError(out.res, log, out.err) IN
                      /\ res' = o.res
                      /\ log' = o.log
                      /\ hist' = [h EXCEPT !.respErr = out.err,
                                           !.started = out.res.wroteHeader]
                 ELSE /\ res' = out.res
                      /\ hist' = h
                      /\ UNCHANGED log
    /\ UNCHANGED <<info, req, args, calls, results, regVars, thr, auxVars>>

\* lines 585-595: one turn of the loop over the results
Output ==
    /\ pc = "outputs" /\ idx < info.NumResults
    /\ IF idx = info.ResponseBodyIndex
       THEN /\ idx' = idx + 1
            /\ UNCHANGED <<pc, res, log, hist>>
       ELSE \E out \in ToResponse(res) :
              LET h == [hist EXCEPT !.toResponse = Append(@, idx)] IN
              IF out.err # NoError
              THEN LET o == ResponseError(out.res, log, out.err) IN
                   /\ res' = Finish(o.res)
                   /\ log' = o.log
                   /\ hist' = [h EXCEPT !.respErr = out.err,
                                        !.started = out.res.wroteHeader]
                   /\ pc' = "done"
                   /\ UNCHANGED idx
              ELSE /\ res' = out.res
                   /\ idx' = idx + 1
                   /\ hist' = h
                   /\ UNCHANGED <<pc, log>>
    /\ UNCHANGED <<info, req, args, calls, results, regVars, thr, auxVars>>

\* lines 597-606: the body result is encoded, and the closure returns
Encode ==
    /\ pc = "outputs" /\ idx = info.NumResults
    /\ IF info.ResponseBodyIndex # -1
       THEN \E ok \in BOOLEAN :
              IF ok
              THEN /\ res' = Finish(Write(res, JsonEncode(results.body)))
                   /\ hist' = [hist EXCEPT !.encoded = @ + 1]
                   /\ UNCHANGED log
              ELSE /\ res' = Finish(HttpError(res, <<"">>, StatusInternalServerError))
                   /\ log' = log \cup {"json encoding error"}
                   /\ hist' = [hist EXCEPT !.encoded = @ + 1, !.encodeFailed = TRUE]
       ELSE /\ res' = Finish(res)
            /\ UNCHANGED <<log, hist>>
    /\ pc' = "done"
    /\ UNCHANGED <<info, req, idx, args, calls, results, regVars, thr, auxVars>>

\* ------------------------------------------------------ the adaptor cache
\* reflect.Type of the values HandlerFunc may be given.  RawFunc is
\* func(http.ResponseWriter, *http.Request), HandlerType a type with a
\* ServeHTTP method, FnA and FnB function signatures generate.CollectInfo
\* supports, FnBad one it rejects, IntType a type that is no function.
FuncTypes == {"FnA", "FnB", "FnBad"}
Types == FuncTypes \cup {"RawFunc", "HandlerType", "ByMethod", "IntType"}

\* the values HandlerFunc may be given: f and g are two functions of one
\* signature
Handlers ==
    { [kind |-> "func", typ |-> "FnA", id |-> "f"],
      [kind |-> "func", typ |-> "FnA", id |-> "g"],
      [kind |-> "func", typ |-> "FnB", id |-> "h"],
      [kind |-> "func", typ |-> "FnBad", id |-> "bad"],
      [kind |-> "rawfunc", typ |-> "RawFunc", id |-> "raw"],
      [kind |-> "handler", typ |-> "HandlerType", id |-> "srv"],
      [kind |-> "ByMethod", typ |-> "ByMethod", id |-> "bm"],
      [kind |-> "*ByMethod", typ |-> "ByMethod", id |-> "bmp"],
      [kind |-> "nonfunc", typ |-> "IntType", id |-> "42"],
      [kind |-> "nil", typ |-> "nil", id |-> "nil"] }

\* the adaptors registered ahead of time (generated code)
Registered == {"A", "B"}
Routes == {"/user/:userId/name", "/users"}

\* generate.CollectInfo(typ) returns an error for an unsupported signature
CollectInfoFails(typ) == typ = "FnBad"

\* a store that makes a new map every time, dropping the entries held
MapStoreFresh(ad, typ, adaptor) == [t \in {typ} |-> adaptor]

\* adaptors[typ] = adaptor, on a map made if it was nil
MapStore(ad, typ, adaptor) ==
    [t \in DOMAIN ad \cup {typ} |-> IF t = typ THEN adaptor ELSE ad[t]]

\* a lookup that never finds the signature
MapLookupMiss(ad, typ) == [exists |-> FALSE, adaptor |-> [kind |-> "none", id |-> "none"]]

\* adaptor, exists := adaptors[typ]  (a nil map reads as empty)
MapLookup(ad, typ) ==
    IF typ \in DOMAIN ad
    THEN [exists |-> TRUE, adaptor |-> ad[typ]]
    ELSE [exists |-> FALSE, adaptor |-> [kind |-> "none", id |-> "none"]]

\* makeDynamicAdaptor(typ): the closure, which has introspected nothing yet
makeDynamicAdaptor(typ) == [kind |-> "dynamic", id |-> typ]

NoHandler == [via |-> "none", adaptor |-> "none", h |-> "none"]
Returned(via, a, h, ad, col, built, n) ==
    [ ret |-> [via |-> via, adaptor |-> a, h |-> h.id], panic |-> "none",
      adaptors |-> ad, collected |-> col, built |-> built, introspected |-> n ]
Panicked(value, ad, col, built, n) ==
    [ ret |-> NoHandler, panic |-> value,
      adaptors |-> ad, collected |-> col, built |-> built, introspected |-> n ]

\* adaptor(handler): a registered adaptor wraps the handler; the closure of
\* makeDynamicAdaptor runs generate.CollectInfo at every call
Apply(adaptor, h, ad, col, built) ==
    IF adaptor.kind = "registered"
    THEN Returned("registered", adaptor.id, h, ad, col, built, 0)
    ELSE IF adaptor.id # h.typ
    THEN Panicked("error", ad, col, built, 0)
    ELSE LET col2 == [col EXCEPT ![h.typ] = @ + 1] IN
         IF CollectInfoFails(h.typ)
         THEN Panicked("error", ad, col2, built, 1)
         ELSE Returned("dynamic", "none", h, ad, col2, built, 1)

\* HandlerFunc(handler) on cache ad and introspection counts col: what it
\* returns or panics with ("string": a panic(fmt.Sprintf(...)), "error": a
\* panic with an error value), and the cache and counts it leaves
HandlerFunc(h, ad, col) ==
    IF h.kind = "rawfunc" THEN Returned("raw", "none", h, ad, col, FALSE, 0)
    ELSE IF h.kind = "handler" THEN Returned("handler", "none", h, ad, col, FALSE, 0)
    ELSE IF h.kind \in {"ByMethod", "*ByMethod"}
    THEN Returned("compile", "none", h, ad, col, FALSE, 0)
    ELSE IF h.kind = "nil" THEN Panicked("error", ad, col, FALSE, 0)
    ELSE IF h.kind # "func" THEN Panicked("string", ad, col, FALSE, 0)
    ELSE LET found == MapLookup(ad, h.typ) IN
         IF found.exists
         THEN Apply(found.adaptor, h, ad, col, FALSE)
         ELSE LET adaptor == makeDynamicAdaptor(h.typ) IN
              Apply(adaptor, h, MapStore(ad, h.typ, adaptor), col, TRUE)

\* Paths.Handle(route, fn): the handler is built, then the route is kept
PathsHandle(route, h, ad, col, rts) ==
    LET r == HandlerFunc(h, ad, col) IN
    [inner |-> r, routes |-> IF r.panic = "none" THEN rts \cup {route} ELSE rts]

\* the deferred function of ServeMux.Handle: whether Handle ends in a panic,
\* given the value that was recovered ("none": there was no panic)
HandleRecover(value) ==
    IF value = "error" THEN "panic" ELSE "return"

NoCall ==
    [ op |-> "none", h |-> "none", kind |-> "none", typ |-> "none", route |-> "none",
      pre |-> << >>, ret |-> NoHandler, panic |-> "none",
      built |-> FALSE, introspected |-> 0, outcome |-> "none", names |-> "none" ]

RegInit ==
    /\ adaptors = << >>
    /\ collected = [t \in FuncTypes |-> 0]
    /\ routes = {}
    /\ last = NoCall
    /\ ops = 0

\* RegisterAdaptor(typ, adaptor)
RegisterAdaptor ==
    /\ ops < MaxOps
    /\ \E typ \in Types, a \in Registered :
         /\ adaptors' = MapStore(adaptors, typ, [kind |-> "registered", id |-> a])
         /\ last' = [NoCall EXCEPT !.op = "RegisterAdaptor", !.typ = typ,
                                   !.pre = adaptors, !.outcome = "return"]
    /\ ops' = ops + 1
    /\ UNCHANGED <<collected, routes, serveVars, thr, auxVars>>

\* a call HandlerFunc(handler)
CallHandlerFunc ==
    /\ ops < MaxOps
    /\ \E h \in Handlers :
         LET r == HandlerFunc(h, adaptors, collected) IN
         /\ adaptors' = r.adaptors
         /\ collected' = r.collected
         /\ last' = [NoCall EXCEPT !.op = "HandlerFunc", !.h = h.id, !.kind = h.kind,
                                   !.typ = h.typ, !.pre = adaptors, !.ret = r.ret,
                                   !.panic = r.panic, !.built = r.built,
                                   !.introspected = r.introspected,
                                   !.outcome = IF r.panic = "none" THEN "return" ELSE "panic"]
    /\ ops' = ops + 1
    /\ UNCHANGED <<routes, serveVars, thr, auxVars>>

\* a call sm.Handle(route, fn)
Handle ==
    /\ ops < MaxOps
    /\ \E route \in Routes, h \in Handlers :
         LET p == PathsHandle(route, h, adaptors, collected, routes)
             r == p.inner
             end == HandleRecover(r.panic) IN
         /\ adaptors' = r.adaptors
         /\ collected' = r.collected
         /\ routes' = p.routes
         /\ last' = [NoCall EXCEPT !.op = "Handle", !.h = h.id, !.kind = h.kind,
                                   !.typ = h.typ, !.route = route, !.pre = adaptors,
                                   !.ret = r.ret, !.panic = r.panic, !.built = r.built,
                                   !.introspected = r.introspected, !.outcome = end,
                                   !.names = IF end = "panic" THEN route ELSE "none"]
    /\ ops' = ops + 1
    /\ UNCHANGED <<serveVars, thr, auxVars>>

ServeIdle ==
    /\ info = [ NumInputs |-> 0, RequestBodyIndex |-> -1, IsPointer |-> << >>,
                LastIsError |-> FALSE, NumResults |-> 0, ResponseBodyIndex |-> -1 ]
    /\ req = [body |-> "absent", query |-> << >>]
    /\ pc = "idle" /\ idx = 0 /\ args = << >> /\ calls = 0
    /\ results = [err |-> NoError, body |-> Zero]
    /\ res = NewResponse /\ log = {} /\ hist = NoHist

\* no router, no concurrent requests and no Counter in use
AuxIdle == rt = << >> /\ iso = << >> /\ ctr = << >>

\* ------------------------------------------------------------------ Spec
\* one request arriving at the http.HandlerFunc infoToDynamicAdaptor returned
Init ==
    /\ info \in Plans
    /\ req \in Requests(info)
    /\ pc = NextBind(0)
    /\ idx = 0
    /\ args = << >>
    /\ calls = 0
    /\ results = [err |-> NoError, body |-> Zero]
    /\ res = NewResponse
    /\ log = {}
    /\ hist = NoHist
    /\ RegInit
    /\ thr = << >>
    /\ AuxIdle

Next ==
    \/ BindBody
    \/ BindPointer
    \/ BindValue
    \/ Call
    \/ CheckErrorSlot
    \/ Output
    \/ Encode

Spec == Init /\ [][Next]_vars

\* ------------------------------------------------------- claims on Spec
\* the inputs that extract themselves from the request (not the body slot)
Extracting == { i \in 0 .. (info.NumInputs - 1) : i # info.RequestBodyIndex }

\* the status the spec gives an error: its own code, or 500 without one
StatusOf(err) == IF err.kind = "http" THEN err.code ELSE 500

\* whether text msg is part of what was written to the client
Appears(msg, body) ==
    \E k \in 1 .. Len(body) : \E j \in 1 .. Len(body[k]) : body[k][j] = msg

\* C1: the handler is invoked only once every input slot has been populated:
\* after a decode failure or a FromRequest error at any position the handler
\* has not run, and when it has run no input failed and all slots are filled.
C1_HandlerOnlyAfterAllBound ==
    /\ calls <= 1
    /\ hist.failAt # -1 => calls = 0
    /\ calls > 0 => DOMAIN args = 0 .. (info.NumInputs - 1)

\* the second input failed after the first was bound, and the request ended
\* without the handler
C1_Witness ==
    pc = "done" /\ hist.failAt = 1 /\ 0 \in DOMAIN args /\ calls = 0

C3_ErrorSlotShortCircuits ==
    (calls > 0 /\ info.LastIsError /\ results.err # NoError /\ pc # "errslot") =>
        /\ pc = "done"
        /\ hist.toResponse = << >>
        /\ hist.encoded = 0
        /\ ~Appears("json", res.body)
        /\ res.status = StatusOf(results.err)

\* the handler returned an error next to a Responsive result and a body result
C3_Witness ==
    /\ pc = "done" /\ calls = 1 /\ results.err # NoError
    /\ info.NumResults >= 2 /\ info.ResponseBodyIndex # -1

\* C4 as stated: whenever ResponseError got an error with a status, the
\* response has exactly that status and the message as its body.
C4_Original ==
    (pc = "done" /\ hist.respErr.kind = "http") =>
        /\ res.status = hist.respErr.code
        /\ res.body = << <<hist.respErr.msg>> >>

\* C4, amended: ResponseError sends the message of an error with a status as
\* the last line of the body, and, when nothing had been written to the
\* response before, the status is exactly the error's and the body only the
\* message.
C4_StatusOfHTTPError ==
    (pc = "done" /\ hist.respErr.kind = "http") =>
        /\ Len(res.body) > 0 /\ res.body[Len(res.body)] = <<hist.respErr.msg>>
        /\ ~hist.started =>
              /\ res.status = hist.respErr.code
              /\ res.body = << <<hist.respErr.msg>> >>

\* an error with status 404 reached ResponseError on a fresh response
C4_Witness ==
    /\ pc = "done" /\ hist.respErr.kind = "http" /\ hist.respErr.code = 404
    /\ ~hist.started /\ res.status = 404

\* the error of the request that has no status, if there is one
PlainErrorOf ==
    IF hist.failKind = "decode" THEN hist.failErr ELSE hist.respErr

\* C5 as stated: every error without a status is answered 500 and its text
\* is never written to the client.
C5_Original ==
    (pc = "done" /\ PlainErrorOf.kind = "plain") =>
        /\ res.status = 500
        /\ ~Appears(PlainErrorOf.msg, res.body)

\* C5, amended: the text of an error without a status that reaches
\* ResponseError is logged and never written to the client, and the response
\* is an empty 500 when nothing had been written before.
C5_PlainErrorNotLeaked ==
    (pc = "done" /\ hist.respErr.kind = "plain") =>
        /\ ~Appears(hist.respErr.msg, res.body)
        /\ hist.respErr.msg \in log
        /\ ~hist.started => (res.status = 500 /\ res.body = << <<"">> >>)

\* an error without a status was answered 500
C5_Witness ==
    /\ pc = "done" /\ hist.respErr.kind = "plain" /\ calls = 1
    /\ res.status = 500 /\ hist.respErr.msg \in log

\* C6: a pointer-typed parameter with no data in the request does not fail
\* the request, and the handler gets it as nil.
C6_OptionalAbsentIsNil ==
    \A i \in Extracting :
        (info.IsPointer[i] /\ req.query[i] = "absent") =>
            /\ hist.failAt # i
            /\ i \in DOMAIN args => args[i].nil

\* --------------------------------------------------------------- SpecReg
\* a sequence of registration calls made by one goroutine during setup
InitReg == ServeIdle /\ RegInit /\ thr = << >> /\ AuxIdle

NextReg == RegisterAdaptor \/ CallHandlerFunc \/ Handle

SpecReg == InitReg /\ [][NextReg]_vars

\* ---------------------------------------------------- claims on SpecReg
\* C7 as stated: every failure while registering a route through
\* ServeMux.Handle reaches the caller as an error naming the route; Handle
\* never returns normally after a failure.
C7_FailurePropagated ==
    (last.op = "Handle" /\ last.panic # "none") =>
        /\ last.outcome = "panic"
        /\ last.names = last.route

\* C8 as stated: generate.CollectInfo runs at most once for each signature,
\* however many HandlerFunc calls are made with handlers of that signature.
C8_PlanBuiltOnce ==
    \A t \in FuncTypes : collected[t] <= 1

\* C9 as stated: HandlerFunc(h), for a function h whose signature has a
\* registered adaptor A, returns A(h) without building a dynamic adaptor or
\* introspecting.
C9_Original ==
    ( /\ last.op \in {"HandlerFunc", "Handle"}
      /\ last.kind \in {"func", "rawfunc"}
      /\ last.typ \in DOMAIN last.pre
      /\ last.pre[last.typ].kind = "registered" ) =>
        /\ last.ret = [via |-> "registered", adaptor |-> last.pre[last.typ].id, h |-> last.h]
        /\ ~last.built /\ last.introspected = 0

\* C9, amended: for a function h that is not func(http.ResponseWriter,
\* *http.Request) (which HandlerFunc returns as it is, before any lookup),
\* a registered adaptor A of h's signature makes HandlerFunc return A(h)
\* without makeDynamicAdaptor or CollectInfo and leaves the cache as it was;
\* a dynamic adaptor is made only for a signature with no entry in the cache.
C9_RegisteredAdaptorUsed ==
    /\ ( /\ last.op \in {"HandlerFunc", "Handle"}
         /\ last.kind = "func"
         /\ last.typ \in DOMAIN last.pre
         /\ last.pre[last.typ].kind = "registered" ) =>
           /\ last.ret = [via |-> "registered", adaptor |-> last.pre[last.typ].id,
                          h |-> last.h]
           /\ ~last.built /\ last.introspected = 0
           /\ adaptors = last.pre
    /\ last.built => last.typ \notin DOMAIN last.pre

\* HandlerFunc(g) returned B(g): B was registered for the signature after a
\* dynamic adaptor had been built for it
C9_Witness ==
    /\ last.op = "HandlerFunc" /\ last.kind = "func"
    /\ last.ret.via = "registered" /\ last.ret.adaptor = "B"
    /\ collected[last.typ] = 1

\* -------------------------------------- goroutines on the adaptor cache
Threads == 1 .. MaxThreads

\* the calls a goroutine may make: HandlerFunc on a function value, or
\* RegisterAdaptor
ConcCalls ==
    { [op |-> "HandlerFunc", h |-> h, typ |-> h.typ,
       adaptor |-> [kind |-> "none", id |-> "none"]] : h \in {x \in Handlers : x.kind = "func"} }
    \cup
    { [op |-> "RegisterAdaptor", h |-> [kind |-> "none", typ |-> t, id |-> "none"], typ |-> t,
       adaptor |-> [kind |-> "registered", id |-> "A"]] : t \in {"FnA", "FnB"} }

\* the goroutines inside an access to the adaptors map
Accessing(t) == thr[t].pc \in {"reading", "writing"}
Racing(t) == \E u \in Threads \ {t} : Accessing(u) /\ "writing" \in {thr[t].pc, thr[u].pc}

\* the Go runtime may abort the process on a concurrent map access
Fatal == [t \in Threads |-> [thr[t] EXCEPT !.pc = "fatal"]]

\* line 498, entered: adaptors[typ] is being read
BeginRead ==
    /\ \E t \in Threads :
         /\ thr[t].pc = "start" /\ thr[t].call.op = "HandlerFunc"
         /\ thr' = [thr EXCEPT ![t].pc = "reading"]
    /\ UNCHANGED <<adaptors, collected, routes, last, ops, serveVars, auxVars>>

\* line 498, left: adaptor and exists are set
EndRead ==
    /\ \E t \in Threads :
         /\ thr[t].pc = "reading"
         /\ \/ LET found == MapLookup(adaptors, thr[t].call.typ) IN
               thr' = [thr EXCEPT ![t].pc = IF found.exists THEN "apply" ELSE "make",
                                  ![t].adaptor = found.adaptor]
            \/ Racing(t) /\ thr' = Fatal
    /\ UNCHANGED <<adaptors, collected, routes, last, ops, serveVars, auxVars>>

\* lines 451-454 and 502-506, entered: adaptors[typ] is being written
BeginWrite ==
    /\ \E t \in Threads :
         \/ /\ thr[t].pc = "start" /\ thr[t].call.op = "RegisterAdaptor"
            /\ thr' = [thr EXCEPT ![t].pc = "writing", ![t].adaptor = thr[t].call.adaptor]
         \/ /\ thr[t].pc = "make"
            /\ thr' = [thr EXCEPT ![t].pc = "writing",
                                  ![t].adaptor = makeDynamicAdaptor(thr[t].call.typ)]
    /\ UNCHANGED <<adaptors, collected, routes, last, ops, serveVars, auxVars>>

\* lines 454 and 506, left: the entry is stored
EndWrite ==
    /\ \E t \in Threads :
         /\ thr[t].pc = "writing"
         /\ \/ /\ adaptors' = MapStore(adaptors, thr[t].call.typ, thr[t].adaptor)
               /\ thr' = [thr EXCEPT ![t].pc = IF thr[t].call.op = "HandlerFunc"
                                               THEN "apply" ELSE "done"]
            \/ Racing(t) /\ thr' = Fatal /\ UNCHANGED adaptors
    /\ UNCHANGED <<collected, routes, last, ops, serveVars, auxVars>>

\* line 508: return adaptor(handler)
ApplyAdaptor ==
    /\ \E t \in Threads :
         /\ thr[t].pc = "apply"
         /\ LET r == Apply(thr[t].adaptor, thr[t].call.h, adaptors, collected, FALSE) IN
            /\ collected' = r.collected
            /\ thr' = [thr EXCEPT ![t].pc = IF r.panic = "none" THEN "done" ELSE "panicked"]
    /\ UNCHANGED <<adaptors, routes, last, ops, serveVars, auxVars>>

\* -------------------------------------------------------------- SpecConc
\* goroutines that each make one call, starting on the empty cache
InitConc ==
    /\ ServeIdle
    /\ RegInit
    /\ thr \in [Threads -> [call : ConcCalls, pc : {"start"},
                            adaptor : {[kind |-> "none", id |-> "none"]}]]
    /\ AuxIdle

NextConc == BeginRead \/ EndRead \/ BeginWrite \/ EndWrite \/ ApplyAdaptor

SpecConc == InitConc /\ [][NextConc]_vars

\* C10: no write of the adaptors map overlaps another read or write of it.
C10_NoConcurrentMapAccess ==
    \A t \in Threads : thr[t].pc = "writing" => \A u \in Threads \ {t} : ~Accessing(u)

\* ------------------------------------------------ more claims on Spec
\* the results that go through ToResponse: all but the body result
NonBody == { j \in 0 .. (info.NumResults - 1) : j # info.ResponseBodyIndex }

\* C15: after a successful invocation the non-body results go through
\* ToResponse in return order, each once; the body is encoded at most once
\* and only after all of them succeeded; a failing ToResponse ends the
\* request: nothing is processed after it and the body is not encoded.
C15_OutputsInOrder ==
    /\ \A k \in 1 .. Len(hist.toResponse) :
          /\ hist.toResponse[k] \in NonBody
          /\ Cardinality({ j \in NonBody : j < hist.toResponse[k] }) = k - 1
    /\ hist.toResponse # << >> => (calls = 1 /\ results.err = NoError)
    /\ hist.encoded <= 1
    /\ hist.encoded = 1 =>
          /\ Len(hist.toResponse) = Cardinality(NonBody)
          /\ hist.respErr = NoError
          /\ pc = "done"
    /\ (hist.toResponse # << >> /\ hist.respErr # NoError) =>
          /\ pc = "done"
          /\ hist.encoded = 0
          /\ ~Appears("json", res.body)

\* the body result is the first return value and a Responsive one follows it:
\* ToResponse ran on the second before the first was encoded
C15_Witness ==
    /\ pc = "done" /\ info.ResponseBodyIndex = 0 /\ info.NumResults >= 2
    /\ hist.toResponse # << >> /\ hist.toResponse[1] = 1
    /\ hist.encoded = 1 /\ ~hist.encodeFailed

\* C17: values pass through the adaptor unchanged.  The handler gets, at each
\* declared position, the value decoded from the request body or the value
\* the parameter's FromRequest took from the request, and the response body
\* is the encoding of the handler's body return value, which decodes to it.
C17_ValuesPassThrough ==
    /\ calls > 0 =>
          /\ DOMAIN hist.passed = 0 .. (info.NumInputs - 1)
          /\ \A i \in 0 .. (info.NumInputs - 1) :
                IF i = info.RequestBodyIndex
                THEN req.body \in Values /\ hist.passed[i].val = req.body
                ELSE /\ req.query[i] # "malformed"
                     /\ hist.passed[i].val =
                           (IF req.query[i] \in Values THEN req.query[i] ELSE Zero)
    /\ (pc = "done" /\ hist.encoded = 1 /\ ~hist.encodeFailed) =>
          /\ Len(res.body) > 0
          /\ res.body[Len(res.body)] = JsonEncode(results.body)
          /\ JsonDecode(res.body[Len(res.body)]) = results.body
          /\ results.body \in Values

\* a handler func(p Param, body *Body) Result got "nachos" and "awesome" in
\* that order and its result "nachos" was encoded
C17_Witness ==
    /\ pc = "done" /\ calls = 1 /\ info.NumInputs >= 2 /\ info.RequestBodyIndex = 1
    /\ hist.passed[0].val = "nachos" /\ hist.passed[1].val = "awesome"
    /\ hist.encoded = 1 /\ ~hist.encodeFailed /\ results.body = "nachos"

\* ------------------------------------------------ more claims on SpecReg
\* C18 as stated: a HandlerFunc call that panics leaves the adaptors map
\* with exactly the entries it held before the call.
C18_Original ==
    (last.op \in {"HandlerFunc", "Handle"} /\ last.panic # "none") =>
        adaptors = last.pre

\* C18, amended: a HandlerFunc call that panics on a value that is no
\* function leaves the adaptors map as it was; a call that panics while
\* building the plan leaves every earlier entry as it was and has added at
\* most the dynamic adaptor of its own signature, which panics again whenever
\* it is applied.
C18_FailedCallAndCache ==
    (last.op \in {"HandlerFunc", "Handle"} /\ last.panic # "none") =>
        /\ last.kind # "func" => adaptors = last.pre
        /\ \A t \in DOMAIN last.pre : t \in DOMAIN adaptors /\ adaptors[t] = last.pre[t]
        /\ DOMAIN adaptors \subseteq DOMAIN last.pre \cup {last.typ}
        /\ (last.kind = "func" /\ last.typ \notin DOMAIN last.pre) =>
              /\ last.built
              /\ adaptors[last.typ] = makeDynamicAdaptor(last.typ)
              /\ CollectInfoFails(last.typ)

\* HandlerFunc panicked on an unsupported signature while the cache held
\* another entry, and the cache has grown by the failing signature
C18_Witness ==
    /\ last.op = "HandlerFunc" /\ last.panic = "error" /\ last.typ = "FnBad"
    /\ DOMAIN last.pre = {"FnA"} /\ DOMAIN adaptors = {"FnA", "FnBad"}

\* ------------------------------------- the path router and ByMethod
\* a segment of a path pattern: a literal, or a named capture (":userId")
Lit(text) == [capture |-> FALSE, text |-> text]
Cap(name) == [capture |-> TRUE, text |-> name]

\* the patterns routes are registered with
Patterns ==
    { <<Lit("user"), Cap("userId"), Lit("name")>>,
      <<Lit("user"), Lit("10"), Lit("name")>>,
      <<Cap("x"), Cap("userId"), Lit("name")>>,
      <<Lit("user"), Cap("userId")>> }

\* the request paths, in segments ("" is the empty segment of /user//name)
ReqPaths ==
    { <<"user", "10", "name">>, <<"user", "", "name">>,
      <<"other", "11", "name">>, <<"user", "10">>, <<"nope">> }

RouteMethods == {"GET", "PUT"}
ReqMethods == {"GET", "PUT", "POST"}

\* the ByMethod values: a handler for some of the methods
Wrappers == UNION { [S -> {"handler"}] : S \in SUBSET RouteMethods }

\* a comparison in which a capture faces any segment, the empty one too
RECURSIVE MatchFromAnySegment(_, _, _)
MatchFromAnySegment(pattern, path, i) ==
    IF i > Len(pattern) THEN TRUE
    ELSE IF pattern[i].capture
         THEN MatchFromAnySegment(pattern, path, i + 1)
         ELSE pattern[i].text = path[i] /\ MatchFromAnySegment(pattern, path, i + 1)

\* whether pattern and path agree from segment i on: a literal must be equal,
\* a capture faces any segment that is not empty
RECURSIVE MatchFrom(_, _, _)
MatchFrom(pattern, path, i) ==
    IF i > Len(pattern) THEN TRUE
    ELSE IF pattern[i].capture
         THEN path[i] # "" /\ MatchFrom(pattern, path, i + 1)
         ELSE pattern[i].text = path[i] /\ MatchFrom(pattern, path, i + 1)

\* a route entry matches a path of the same segment count
Matches(pattern, path) ==
    Len(pattern) = Len(path) /\ MatchFrom(pattern, path, 1)

\* the number of literal segments of a pattern
RECURSIVE Literals(_)
Literals(pattern) ==
    IF pattern = << >> THEN 0
    ELSE (IF Head(pattern).capture THEN 0 ELSE 1) + Literals(Tail(pattern))

\* the path parameters: each capture name bound to the segment it faces
RECURSIVE BindFrom(_, _, _, _)
BindFrom(pattern, path, i, params) ==
    IF i > Len(pattern) THEN params
    ELSE IF pattern[i].capture
         THEN BindFrom(pattern, path, i + 1,
                       [n \in DOMAIN params \cup {pattern[i].text} |->
                           IF n = pattern[i].text THEN path[i] ELSE params[n]])
         ELSE BindFrom(pattern, path, i + 1, params)

\* a scan that takes the first entry that matches
RECURSIVE ScanFirst(_, _, _, _, _)
ScanFirst(table, method, path, k, best) ==
    IF k > Len(table) THEN best
    ELSE IF best = 0 /\ table[k].method = method /\ Matches(table[k].pattern, path)
         THEN ScanFirst(table, method, path, k + 1, k)
         ELSE ScanFirst(table, method, path, k + 1, best)

\* the scan of the table for (method, path): the index of the matching entry
\* with the most literal segments, 0 when none matches
RECURSIVE ScanBest(_, _, _, _, _)
ScanBest(table, method, path, k, best) ==
    IF k > Len(table) THEN best
    ELSE IF /\ table[k].method = method
            /\ Matches(table[k].pattern, path)
            /\ (best = 0 \/ Literals(table[k].pattern) > Literals(table[best].pattern))
         THEN ScanBest(table, method, path, k + 1, k)
         ELSE ScanBest(table, method, path, k + 1, best)

\* a status for a request no entry was chosen for that is always 404
MissStatusAlways404(table, path) == StatusNotFound

\* the status for a request no entry was chosen for: 405 when the path
\* matches under another method, 404 when it matches under none
MissStatus(table, path) ==
    IF \E k \in 1 .. Len(table) : Matches(table[k].pattern, path)
    THEN StatusMethodNotAllowed ELSE StatusNotFound

\* req.URL.Query().Get(name)
QueryGet(query, name) == IF name \in DOMAIN query THEN query[name] ELSE ""

\* userId.FromRequest: the parameter reads "userId" from the request's query
userIdFromRequest(query) == QueryGet(query, "userId")

\* a method lookup that falls back to the GET handler
ByMethodLookupFallback(w, method) ==
    IF method \in DOMAIN w THEN method
    ELSE IF "GET" \in DOMAIN w THEN "GET" ELSE "none"

\* the method lookup of a compiled ByMethod: the exact method, or none
ByMethodLookup(w, method) ==
    IF method \in DOMAIN w THEN method ELSE "none"

NoRouted ==
    [ target |-> "none", method |-> "none", path |-> << >>, status |-> 0,
      entry |-> 0, params |-> << >>, observed |-> "", invoked |-> "none" ]

\* Paths.Handle for one method, during setup (before any request is
\* served): the entry is appended; a pair (method, pattern) that is already
\* registered is refused
AddRoute ==
    /\ Len(rt.table) < MaxRoutes
    /\ rt.routed.target = "none"
    /\ \E method \in RouteMethods, pattern \in Patterns :
         /\ \A k \in 1 .. Len(rt.table) :
               ~(rt.table[k].method = method /\ rt.table[k].pattern = pattern)
         /\ rt' = [rt EXCEPT !.table = Append(@, [method |-> method, pattern |-> pattern])]
    /\ UNCHANGED <<serveVars, regVars, thr, iso, ctr>>

\* a request served by the router
RouteRequest ==
    /\ \E method \in ReqMethods, path \in ReqPaths :
         LET k == ScanBest(rt.table, method, path, 1, 0) IN
         IF k = 0
         THEN rt' = [rt EXCEPT !.routed =
                        [NoRouted EXCEPT !.target = "mux", !.method = method, !.path = path,
                                         !.status = MissStatus(rt.table, path)]]
         ELSE LET params == BindFrom(rt.table[k].pattern, path, 1, << >>) IN
              rt' = [rt EXCEPT !.routed =
                        [NoRouted EXCEPT !.target = "mux", !.method = method, !.path = path,
                                         !.status = StatusOK, !.entry = k,
                                         !.params = params,
                                         !.observed = userIdFromRequest(params)]]
    /\ UNCHANGED <<serveVars, regVars, thr, iso, ctr>>

\* a request served by a compiled ByMethod
ServeByMethod ==
    /\ \E method \in ReqMethods :
         LET m == ByMethodLookup(rt.wrapper, method) IN
         rt' = [rt EXCEPT !.routed =
                   [NoRouted EXCEPT !.target = "ByMethod", !.method = method,
                                    !.status = IF m = "none" THEN StatusMethodNotAllowed
                                               ELSE StatusOK,
                                    !.invoked = m]]
    /\ UNCHANGED <<serveVars, regVars, thr, iso, ctr>>

\* ------------------------------------------------------------- SpecRoute
\* routes are registered on an empty ServeMux and requests are served by it
\* and by a ByMethod handler
InitRoute ==
    /\ ServeIdle /\ RegInit /\ thr = << >>
    /\ rt \in [table : {<< >>}, wrapper : Wrappers, routed : {NoRouted}]
    /\ iso = << >> /\ ctr = << >>

NextRoute == AddRoute \/ RouteRequest \/ ServeByMethod

SpecRoute == InitRoute /\ [][NextRoute]_vars

\* -------------------------------------------------- claims on SpecRoute
\* C11: a ByMethod handler dispatches on the exact request method: a method
\* it has no handler for is answered 405 and no wrapped handler runs (no
\* fallback to another method); a method it has a handler for runs exactly
\* that handler.
C11_ExactMethodOnly ==
    rt.routed.target = "ByMethod" =>
        IF rt.routed.method \in DOMAIN rt.wrapper
        THEN rt.routed.invoked = rt.routed.method
        ELSE rt.routed.invoked = "none" /\ rt.routed.status = StatusMethodNotAllowed

\* a ByMethod with only a PUT handler answered a GET with 405
C11_Witness ==
    /\ rt.routed.target = "ByMethod" /\ DOMAIN rt.wrapper = {"PUT"}
    /\ rt.routed.method = "GET" /\ rt.routed.status = StatusMethodNotAllowed

\* what the spec calls a match of pattern pt with path
SpecMatch(pt, path) ==
    /\ Len(pt) = Len(path)
    /\ \A i \in 1 .. Len(pt) :
          IF pt[i].capture THEN path[i] # "" ELSE pt[i].text = path[i]

\* the entries of the requested method that match the routed request
Matching ==
    { k \in 1 .. Len(rt.table) :
        /\ rt.table[k].method = rt.routed.method
        /\ SpecMatch(rt.table[k].pattern, rt.routed.path) }

\* the number of literal segments, counted over the positions
LiteralCount(pt) == Cardinality({ i \in 1 .. Len(pt) : ~pt[i].capture })

\* C12: the router dispatches a request to an entry exactly when an entry of
\* its method matches the path (same segment count, literals equal, captures
\* facing non-empty segments); the entry dispatched to matches, each of its
\* capture names is bound to the segment at its position, and a userId
\* parameter of the handler observes the segment captured as userId.
C12_RouteMatch ==
    rt.routed.target = "mux" =>
        /\ rt.routed.entry = 0 <=> Matching = {}
        /\ rt.routed.entry # 0 =>
              LET pt == rt.table[rt.routed.entry].pattern IN
              /\ rt.routed.entry \in Matching
              /\ DOMAIN rt.routed.params = { pt[i].text : i \in { j \in 1 .. Len(pt) : pt[j].capture } }
              /\ \A i \in 1 .. Len(pt) :
                    pt[i].capture =>
                        /\ rt.routed.params[pt[i].text] = rt.routed.path[i]
                        /\ pt[i].text = "userId" => rt.routed.observed = rt.routed.path[i]

\* /user/:userId/name was registered, /user/10/name requested, and the
\* handler's userId is "10"
C12_Witness ==
    /\ rt.routed.target = "mux" /\ rt.routed.entry # 0
    /\ rt.table[rt.routed.entry].pattern = <<Lit("user"), Cap("userId"), Lit("name")>>
    /\ rt.routed.path = <<"user", "10", "name">>
    /\ rt.routed.observed = "10"

\* C13: of the entries that match a request, one with the most literal
\* segments is dispatched to, whatever the order of registration.
C13_MostSpecificWins ==
    (rt.routed.target = "mux" /\ rt.routed.entry # 0) =>
        \A k \in Matching :
            LiteralCount(rt.table[k].pattern)
                <= LiteralCount(rt.table[rt.routed.entry].pattern)

\* the capture route was registered first, the literal route of the same
\* shape second, and the literal route got the request
C13_Witness ==
    /\ rt.routed.target = "mux" /\ rt.routed.entry = 2 /\ 1 \in Matching
    /\ rt.table[1].pattern = <<Lit("user"), Cap("userId"), Lit("name")>>
    /\ rt.table[2].pattern = <<Lit("user"), Lit("10"), Lit("name")>>

\* the entries, of any method, whose pattern matches the routed path
MatchingAnyMethod ==
    { k \in 1 .. Len(rt.table) : SpecMatch(rt.table[k].pattern, rt.routed.path) }

\* C14: the router answers 404 exactly when no pattern matches the path
\* under any method, and 405 exactly when a pattern matches the path but
\* none of the requested method does.
C14_NotFoundOrNotAllowed ==
    rt.routed.target = "mux" =>
        /\ rt.routed.status = StatusNotFound <=> MatchingAnyMethod = {}
        /\ rt.routed.status = StatusMethodNotAllowed <=> (MatchingAnyMethod # {} /\ Matching = {})

\* a path registered for PUT only was requested with GET
C14_Witness ==
    /\ rt.routed.target = "mux" /\ rt.routed.status = StatusMethodNotAllowed
    /\ rt.routed.method = "GET" /\ MatchingAnyMethod # {}
    /\ \A k \in MatchingAnyMethod : rt.table[k].method = "PUT"

\* ------------------------------- requests served at once by one adaptor
\* The plans of the adaptor that serves the concurrent requests: the
\* signatures func(body T, p Param) error and func(p Param, q *Param).
IsoPlans ==
    { [ NumInputs |-> 2, RequestBodyIndex |-> 0,
        IsPointer |-> (0 :> FALSE @@ 1 :> FALSE), LastIsError |-> TRUE,
        NumResults |-> 0, ResponseBodyIndex |-> -1 ],
      [ NumInputs |-> 2, RequestBodyIndex |-> -1,
        IsPointer |-> (0 :> FALSE @@ 1 :> TRUE), LastIsError |-> FALSE,
        NumResults |-> 0, ResponseBodyIndex |-> -1 ] }

\* the requests that reach the adaptor.  The query holds nothing under the
\* index of the body input, which is not looked up there; a parameter is
\* present or absent (absence covers both outcomes of an extraction, the
\* error that malformed data gives too and the zero value)
IsoRequests(p) ==
    { q \in Requests(p) :
        \A i \in DOMAIN q.query :
            /\ i = p.RequestBodyIndex => q.query[i] = "absent"
            /\ q.query[i] # "malformed" }

\* a request that has not arrived
NoRequest ==
    [ pc |-> "idle", data |-> << >>, idx |-> 0, passed |-> << >>, during |-> {},
      failAt |-> -1, err |-> NoError, res |-> NewResponse ]

\* the requests the closure is running for
InFlight == { r \in Threads : iso.reqs[r].pc \in {"bind", "call"} }

\* one slice of slots that every application of the closure uses
ArgsShared(r) == CHOOSE k \in Threads : \A j \in Threads : k <= j

\* line 546: args := make([]reflect.Value, len(info.Inputs)) runs inside the
\* closure, once per request: request r has slots of its own
Args(r) == r

\* the closure is entered for request r: lines 545-546
IsoBegin(r) ==
    /\ iso.reqs[r].pc = "idle"
    /\ \E d \in IsoRequests(iso.info) :
         iso' = [iso EXCEPT !.reqs[r] = [NoRequest EXCEPT !.pc = "bind", !.data = d],
                            !.args[Args(r)] = << >>]
    /\ UNCHANGED <<serveVars, regVars, thr, rt, ctr>>

\* lines 547-572, one turn of the loop for request r: the input at idx is
\* decoded or extracted from r's request, an error ends the request, a
\* value is stored in the slot
IsoBind(r) ==
    LET q == iso.reqs[r]
        p == iso.info
        i == q.idx
        outs == IF i = p.RequestBodyIndex THEN {Decode(q.data.body)}
                ELSE FromRequest(q.data.query[i])
    IN
    /\ q.pc = "bind"
    /\ \E out \in outs :
         IF out.err # NoError
         THEN iso' = [iso EXCEPT
                 !.reqs[r] = [q EXCEPT
                     !.pc = "done", !.failAt = i, !.err = out.err,
                     !.res = IF i = p.RequestBodyIndex
                             THEN Finish(HttpError(q.res, <<"error decoding json: ", out.err.msg>>,
                                                   StatusBadRequest))
                             ELSE Finish(ResponseError(q.res, {}, out.err).res)],
                 !.args[Args(r)] = << >>]
         ELSE iso' = [iso EXCEPT
                 !.reqs[r] = [q EXCEPT !.idx = i + 1,
                                       !.pc = IF i + 1 < p.NumInputs THEN "bind" ELSE "call"],
                 !.args[Args(r)] = [j \in (DOMAIN @) \cup {i} |-> IF j = i THEN out.val ELSE @[j]]]
    /\ UNCHANGED <<serveVars, regVars, thr, rt, ctr>>

\* lines 573-583 and the return, for request r: the handler is called with
\* the slots, an error in the error slot is answered through ResponseError
IsoCall(r) ==
    LET q == iso.reqs[r] IN
    /\ q.pc = "call"
    /\ \E out \in HandlerResults(iso.info) :
         iso' = [iso EXCEPT
             !.reqs[r] = [q EXCEPT
                 !.pc = "done", !.passed = iso.args[Args(r)], !.during = InFlight \ {r},
                 !.err = out.err,
                 !.res = IF out.err # NoError
                         THEN Finish(ResponseError(q.res, {}, out.err).res)
                         ELSE Finish(q.res)],
             !.args[Args(r)] = << >>]
    /\ UNCHANGED <<serveVars, regVars, thr, rt, ctr>>

Arrive == \E r \in Threads : IsoBegin(r)
Bind == \E r \in Threads : IsoBind(r)
Invoke == \E r \in Threads : IsoCall(r)

InitIso ==
    /\ ServeIdle /\ RegInit /\ thr = << >> /\ rt = << >> /\ ctr = << >>
    /\ iso \in [ info : IsoPlans, args : {[k \in Threads |-> << >>]},
                 reqs : {[r \in Threads |-> NoRequest]} ]

NextIso == Arrive \/ Bind \/ Invoke

SpecIso == InitIso /\ [][NextIso]_vars

\* what input i of plan p is bound to from request data d when no binding
\* fails
Extracted(p, d, i) ==
    IF i = p.RequestBodyIndex THEN d.body
    ELSE IF d.query[i] \in Values THEN d.query[i] ELSE Zero

\* C16: requests served at the same time by one dynamic adaptor are
\* isolated: the handler call of a request gets, in every slot, the value
\* extracted from that request; a request ends in a binding error only when
\* its own data fails to bind; and a request whose binding and handler
\* succeed is answered StatusOK whatever happened to the others.
C16_RequestsIsolated ==
    \A r \in Threads :
        LET q == iso.reqs[r]
            p == iso.info IN
        q.pc = "done" =>
            /\ q.failAt = -1 =>
                  /\ DOMAIN q.passed = 0 .. (p.NumInputs - 1)
                  /\ \A i \in DOMAIN q.passed : q.passed[i] = Extracted(p, q.data, i)
            /\ q.failAt # -1 =>
                  /\ q.passed = << >>
                  /\ IF q.failAt = p.RequestBodyIndex
                     THEN q.data.body \notin Values
                     ELSE q.data.query[q.failAt] \notin Values
            /\ q.err = NoError => q.res = Finish(NewResponse)

\* a request's handler ran with its own values while another request, with
\* other data, was being bound, and that other request then failed
C16_Witness ==
    \E r, o \in Threads :
        /\ r # o /\ iso.reqs[r].pc = "done" /\ iso.reqs[o].pc = "done"
        /\ o \in iso.reqs[r].during
        /\ iso.reqs[r].failAt = -1 /\ iso.reqs[r].res.status = StatusOK
        /\ iso.reqs[o].failAt # -1 /\ iso.reqs[o].res.status # StatusOK
        /\ iso.reqs[r].data # iso.reqs[o].data

\* ------------------------------------------------------ the example Counter
\* a goroutine that is in no Counter method
Idle == [pc |-> "idle", tmp |-> 0]

\* a Lock that is granted whoever holds the mutex
LockFreeAlways(lock) == TRUE

\* c.lock.Lock() returns only when no goroutine holds the mutex
LockFree(lock) == lock = 0

\* lines 15-16 of Incr: c.lock.Lock(); defer c.lock.Unlock()
IncrLock ==
    /\ ctr.calls < MaxCalls
    /\ \E g \in Threads :
         /\ ctr.g[g].pc = "idle"
         /\ LockFree(ctr.lock)
         /\ ctr' = [ctr EXCEPT !.calls = @ + 1, !.lock = g, !.g[g].pc = "locked"]
    /\ UNCHANGED <<serveVars, regVars, thr, rt, iso>>

\* line 17, c.HitCount++: the load of the field
IncrRead ==
    /\ \E g \in Threads :
         /\ ctr.g[g].pc = "locked"
         /\ ctr' = [ctr EXCEPT !.g[g] = [pc |-> "update", tmp |-> ctr.HitCount]]
    /\ UNCHANGED <<serveVars, regVars, thr, rt, iso>>

\* line 17, c.HitCount++: the store of the incremented value
IncrWrite ==
    /\ \E g \in Threads :
         /\ ctr.g[g].pc = "update"
         /\ ctr' = [ctr EXCEPT !.HitCount = ctr.g[g].tmp + 1,
                               !.g[g] = [pc |-> "written", tmp |-> 0]]
    /\ UNCHANGED <<serveVars, regVars, thr, rt, iso>>

\* lines 18-19: return c, and the deferred c.lock.Unlock()
IncrUnlock ==
    /\ \E g \in Threads :
         /\ ctr.g[g].pc = "written"
         /\ ctr' = [ctr EXCEPT !.lock = 0, !.completed = @ + 1, !.g[g] = Idle]
    /\ UNCHANGED <<serveVars, regVars, thr, rt, iso>>

\* line 23, func (c Counter) Count(): the value receiver is a copy of the
\* Counter, made by the caller without taking the lock; the copy of
\* HitCount starts here
CountRead ==
    /\ ctr.calls < MaxCalls
    /\ \E g \in Threads :
         /\ ctr.g[g].pc = "idle"
         /\ ctr' = [ctr EXCEPT !.calls = @ + 1,
                               !.g[g] = [pc |-> "copy", tmp |-> ctr.HitCount]]
    /\ UNCHANGED <<serveVars, regVars, thr, rt, iso>>

\* lines 24-26: the copy is complete and the map with the count is
\* returned.  A copy that overlapped a store holds the value before or the
\* value after it.
CountReturn ==
    /\ \E g \in Threads :
         /\ ctr.g[g].pc = "copy"
         /\ \E v \in {ctr.g[g].tmp, ctr.HitCount} :
              ctr' = [ctr EXCEPT !.counted = v, !.g[g] = Idle]
    /\ UNCHANGED <<serveVars, regVars, thr, rt, iso>>

\* a Counter as declared: the zero value, the mutex unlocked
InitCounter ==
    /\ ServeIdle /\ RegInit /\ thr = << >> /\ rt = << >> /\ iso = << >>
    /\ ctr = [ HitCount |-> 0, lock |-> 0, completed |-> 0, calls |-> 0, counted |-> 0,
               g |-> [t \in Threads |-> Idle] ]

NextCounter ==
    IncrLock \/ IncrRead \/ IncrWrite \/ IncrUnlock \/ CountRead \/ CountReturn

SpecCounter == InitCounter /\ [][NextCounter]_vars

\* the goroutines inside the read-modify-write of HitCount
Updating == { g \in Threads : ctr.g[g].pc = "update" }

\* the goroutines whose Incr has stored its value and not yet returned
Stored == { g \in Threads : ctr.g[g].pc = "written" }

\* C19: Incr loses no update: HitCount is the number of completed Incr calls
\* plus the calls that have stored and not yet returned (so after n completed
\* calls and none in progress it is exactly n), and at most one Incr is
\* inside its read-modify-write of HitCount.
C19_NoLostUpdate ==
    /\ ctr.HitCount = ctr.completed + Cardinality(Stored)
    /\ Cardinality(Updating) <= 1

\* at least two Incr calls have completed, none is in progress, and
\* HitCount counts them all
C19_Witness ==
    /\ ctr.completed >= 2 /\ ctr.HitCount = ctr.completed
    /\ \A g \in Threads : ctr.g[g].pc = "idle"

\* C20: Count never reads HitCount while an Incr on the same Counter is
\* inside its update of it.
C20_CountExcludedFromIncr ==
    ~ \E g, h \in Threads : ctr.g[g].pc = "copy" /\ ctr.g[h].pc = "update"

====
